---- MODULE Spec2Model ----
(***************************************************************************)
(* Model of svn-time-machine.py (tagTimeMachine) and of the helpers of     *)
(* svn.py it uses.                                                         *)
(*                                                                         *)
(* Strings (urls, paths, declaration lines) are sequences of tokens: a     *)
(* token is a separator ("http://", "/", "^", "@", " ", a double quote, a  *)
(* digit) or an atom that stands for a run of ordinary characters.  The   *)
(* string operations of the source (startswith, find, slicing, join) are   *)
(* the corresponding sequence operations.                                  *)
(*                                                                         *)
(* The svn client is the environment: every call made through executeSvn   *)
(* is appended to the variable calls, answers come from the bounded world  *)
(* chosen in Init (the variable props and the commit tables below), and    *)
(* any call may fail.                                                      *)
(***************************************************************************)
EXTENDS Integers, Sequences, FiniteSets, TLC

\* ------------------------------------------------------------------ bounds
\* Highest revision number of the repositories of the bounded world.
MaxRev == 2

\* --------------------------------------------------------- string helpers
StartsWith(s, p) == Len(p) <= Len(s) /\ SubSeq(s, 1, Len(p)) = p

EndsWith(s, p) == Len(p) <= Len(s) /\ SubSeq(s, Len(s) - Len(p) + 1, Len(s)) = p

\* str.find: index of the first occurrence of token t, 0 when absent
\* (python's -1)
Find(s, t) ==
  IF \E i \in 1..Len(s) : s[i] = t
  THEN CHOOSE i \in 1..Len(s) : s[i] = t /\ \A j \in 1..(i - 1) : s[j] # t
  ELSE 0

\* str.rfind
RFind(s, t) ==
  IF \E i \in 1..Len(s) : s[i] = t
  THEN CHOOSE i \in 1..Len(s) : s[i] = t /\ \A j \in (i + 1)..Len(s) : s[j] # t
  ELSE 0

RECURSIVE Strip(_)
\* str.strip on the blank token
Strip(s) ==
  IF s = <<>> THEN s
  ELSE IF Head(s) = " " THEN Strip(Tail(s))
  ELSE IF s[Len(s)] = " " THEN Strip(SubSeq(s, 1, Len(s) - 1))
  ELSE s

RECURSIVE SplitOn(_, _)
\* str.split(sep): the pieces between the occurrences of sep
SplitOn(s, sep) ==
  LET i == Find(s, sep)
  IN IF i = 0 THEN <<s>>
     ELSE <<SubSeq(s, 1, i - 1)>> \o SplitOn(SubSeq(s, i + 1, Len(s)), sep)

RECURSIVE JoinWith(_, _)
\* sep.join(parts)
JoinWith(parts, sep) ==
  IF parts = <<>> THEN <<>>
  ELSE IF Len(parts) = 1 THEN parts[1]
  ELSE parts[1] \o sep \o JoinWith(Tail(parts), sep)

Digits == {"0", "1", "2", "3", "4", "5", "6", "7", "8", "9"}

\* int(...) of a one-digit string
DigitVal(d) ==
  CASE d = "0" -> 0 [] d = "1" -> 1 [] d = "2" -> 2 [] d = "3" -> 3
    [] d = "4" -> 4 [] d = "5" -> 5 [] d = "6" -> 6 [] d = "7" -> 7
    [] d = "8" -> 8 [] d = "9" -> 9

\* str(n) / f"{n}" of a number below ten
DigitTok(n) ==
  CASE n = 0 -> "0" [] n = 1 -> "1" [] n = 2 -> "2" [] n = 3 -> "3"
    [] n = 4 -> "4" [] n = 5 -> "5" [] n = 6 -> "6" [] n = 7 -> "7"
    [] n = 8 -> "8" [] n = 9 -> "9"

\* urllib.parse.quote of one path component: the blank is percent-encoded,
\* the other tokens of a component are unreserved characters
quote(n) == [i \in 1..Len(n) |-> IF n[i] = " " THEN "%20" ELSE n[i]]

\* urllib.parse.unquote
unquote(n) == [i \in 1..Len(n) |-> IF n[i] = "%20" THEN " " ELSE n[i]]

\* ---------------------------------------------------------- svn.py, paths
isUrl(path) == StartsWith(path, <<"http://">>)

repositoryJoin(repository, url) ==
  LET u == IF StartsWith(url, <<"^", "/">>) THEN SubSeq(url, 3, Len(url))
           ELSE IF StartsWith(url, <<"/">>) THEN SubSeq(url, 2, Len(url))
           ELSE url
      r == IF EndsWith(repository, <<"/">>) THEN repository
           ELSE repository \o <<"/">>
  IN IF isUrl(u) THEN u ELSE r \o u

\* os.path.join(a, b) on posix paths
osPathJoin(a, b) ==
  IF StartsWith(b, <<"/">>) THEN b
  ELSE IF a = <<>> \/ EndsWith(a, <<"/">>) THEN a \o b
  ELSE a \o <<"/">> \o b

\* os.path.split(p) on a normalised posix path: <<head, tail>>
osPathSplit(p) ==
  LET i == RFind(p, "/")
  IN IF i = 0 THEN <<(<<>>), p>>
     ELSE IF i = 1 THEN <<(<<"/">>), SubSeq(p, 2, Len(p))>>
     ELSE <<SubSeq(p, 1, i - 1), SubSeq(p, i + 1, Len(p))>>

RECURSIVE normpath(_)
\* os.path.normpath: collapses doubled separators and drops a trailing one
\* (the bounded world has no "." or ".." components)
normpath(p) ==
  IF Len(p) > 1 /\ EndsWith(p, <<"/">>) THEN normpath(SubSeq(p, 1, Len(p) - 1))
  ELSE IF \E i \in 1..(Len(p) - 1) : p[i] = "/" /\ p[i + 1] = "/"
  THEN LET i == CHOOSE k \in 1..(Len(p) - 1) : p[k] = "/" /\ p[k + 1] = "/"
       IN normpath(SubSeq(p, 1, i) \o SubSeq(p, i + 2, Len(p)))
  ELSE p

pathJoin(base, extend) ==
  IF isUrl(base) THEN repositoryJoin(base, extend) ELSE osPathJoin(base, extend)

\* getRelativePath: [ok, val]; ok = FALSE is the SvnException
getRelativePath(base, dest) ==
  IF isUrl(base)
  THEN IF ~StartsWith(dest, base \o <<"/">>)
       THEN [ok |-> FALSE, val |-> <<>>]
       ELSE [ok |-> TRUE, val |-> SubSeq(dest, Len(base) + 2, Len(dest))]
  ELSE [ok |-> FALSE, val |-> <<>>]

\* ------------------------------------------------- ExternalInfo and groups
NoRev == 0

ExternalInfo(name, url, revision) ==
  [name |-> name, url |-> url, revision |-> revision]

ExternalFullInfo(name, url, revision, baseDir, repository) ==
  [name |-> name, url |-> url, revision |-> revision,
   baseDir |-> baseDir, repository |-> repository]

fullPath(e) ==
  IF isUrl(e.baseDir) THEN e.baseDir \o <<"/">> \o e.name
  ELSE osPathJoin(e.baseDir, e.name)

fullUrl(e) == repositoryJoin(e.repository, e.url)

\* DirWithExternals: the dictionary is a sequence in insertion order, the
\* names are its keys
DirWithExternals(basePath, repository) ==
  [basePath |-> basePath, repository |-> repository, data |-> <<>>]

\* DirWithExternals.add: a dictionary store
DirAdd(d, name, url, revision) ==
  LET e == ExternalInfo(name, url, revision)
  IN IF \E i \in 1..Len(d.data) : d.data[i].name = name
     THEN [d EXCEPT !.data =
             [i \in 1..Len(d.data) |->
                IF d.data[i].name = name THEN e ELSE d.data[i]]]
     ELSE [d EXCEPT !.data = Append(d.data, e)]

\* DirWithExternals.listFull
listFull(d) ==
  [i \in 1..Len(d.data) |->
     ExternalFullInfo(d.data[i].name, d.data[i].url, d.data[i].revision,
                      d.basePath, d.repository)]

\* ExternalTree: [localPath, data, err]; data is the dictionary of groups in
\* insertion order, err is "ok" until reading the declarations fails
ExternalTree(localPath) == [localPath |-> localPath, data |-> <<>>, err |-> "ok"]

TreePut(t, baseDir, baseName, url, repository, commit) ==
  IF \E i \in 1..Len(t.data) : t.data[i].basePath = baseDir
  THEN [t EXCEPT !.data =
          [i \in 1..Len(t.data) |->
             IF t.data[i].basePath = baseDir
             THEN DirAdd(t.data[i], baseName, url, commit)
             ELSE t.data[i]]]
  ELSE [t EXCEPT !.data =
          Append(t.data,
                 DirAdd(DirWithExternals(baseDir, repository), baseName, url, commit))]

\* ExternalTree.add
TreeAdd(t, localPath, url, repository, commit) ==
  IF isUrl(t.localPath)
  THEN LET lp == repositoryJoin(t.localPath, localPath)
           split == RFind(lp, "/")
       IN IF ~StartsWith(lp, t.localPath \o <<"/">>)
          THEN [t EXCEPT !.err = "notdescendant"]
          ELSE TreePut(t, SubSeq(lp, 1, split - 1),
                       SubSeq(lp, split + 1, Len(lp)), url, repository, commit)
  ELSE LET lp == normpath(osPathJoin(t.localPath, localPath))
           sp == osPathSplit(lp)
       IN TreePut(t, sp[1], sp[2], url, repository, commit)

\* ------------------------------------------------------------ the world
\* Two repositories; the root of the second one extends the root of the
\* first one as a string (hosts "A" and "AB").
RepoA == <<"http://", "A">>

RepoB == <<"http://", "A", "B">>

Trunk == RepoA \o <<"/", "trunk">>

Foo == RepoA \o <<"/", "foo">>

Bar == RepoA \o <<"/", "bar">>

Lib == RepoB \o <<"/", "lib">>

Sub == RepoB \o <<"/", "sub">>

Nodes == {Trunk, Foo, Bar, Lib, Sub}

\* What `svn info` answers as repository root of a url
RepoOf(url) ==
  IF url = RepoB \/ StartsWith(url, RepoB \o <<"/">>) THEN RepoB ELSE RepoA

\* The client resolves a url relative to the repository root (^/...) against
\* the repository of the current directory, a working copy of RepoA
Absolute(url) ==
  IF StartsWith(url, <<"^", "/">>) THEN RepoA \o SubSeq(url, 2, Len(url)) ELSE url

\* Revisions in which a location changed (Sub is created in revision 2 of
\* its repository, Foo is not touched after revision 1)
Changed(url) ==
  IF url = Foo THEN {1}
  ELSE IF url = Sub THEN 2..MaxRev
  ELSE IF url \in Nodes \/ url \in {RepoA, RepoB} THEN 1..MaxRev
  ELSE {}

\* Timestamp of a revision: the two repositories have independent clocks
DateOf(repo, r) == IF repo = RepoA THEN 10 * r ELSE 10 * r - 5

\* A revision or date argument of the command line (-r N, -r {date})
RevBound(n) == [kind |-> "rev", val |-> n]

DateBound(t) == [kind |-> "date", val |-> t]

NoBound == [kind |-> "none", val |-> 0]

\* The revisions of url that a bound admits
AtOrBefore(url, bound) ==
  {c \in Changed(url) :
     IF bound.kind = "rev" THEN c <= bound.val
     ELSE DateOf(RepoOf(url), c) <= bound.val}

SetMax(S) == CHOOSE x \in S : \A y \in S : y <= x

\* The revision a bound designates in a repository (HEAD without bound)
Peg(repo, bound) ==
  IF bound.kind = "none" THEN MaxRev
  ELSE IF bound.kind = "rev" THEN bound.val
  ELSE IF {c \in 1..MaxRev : DateOf(repo, c) <= bound.val} = {} THEN 0
  ELSE SetMax({c \in 1..MaxRev : DateOf(repo, c) <= bound.val})

\* Does the location exist at the bound
ExistsAt(url, bound) ==
  /\ url \in Nodes
  /\ Peg(RepoOf(url), bound) \in 1..MaxRev
  /\ \E c \in Changed(url) : c <= Peg(RepoOf(url), bound)

\* -------------------------------------------------------------- variables
VARIABLES
  props,                \* world: url -> the svn:externals properties below it
  source,               \* arguments of tagTimeMachine
  destination,
  maxRevision,
  useRootRevisionAsMax,
  enableImports,
  messageArg,           \* the message argument (-m), NoMessage when absent
  pc,                   \* position of the run
  repository,           \* locals of tagTimeMachine
  internalRevision,
  externalDate,
  curTemp,
  nextSteps,
  copies,
  copied,               \* how many entries of copies the last loop has passed
  planned,              \* history: the triples popped so far, in order
  seen,                 \* history: the entries handed to filterOutComplex
  res,                  \* history: the applications of the resolver
  calls,                \* every executeSvn call of the run, in order
  occupied,             \* the directories that exist under temporaryDir
  alloc,                \* the processes that call newTemporaryDir, by process
  checkoutRun           \* checkoutTimeMachine: path, recurse, the groups left

vars == <<props, source, destination, maxRevision, useRootRevisionAsMax,
          enableImports, messageArg, pc, repository, internalRevision, externalDate,
          curTemp, nextSteps, copies, copied, planned, seen, res, calls,
          occupied, alloc, checkoutRun>>

\* ------------------------------------------------------------ executeSvn
\* One call of the client: its sub-command, arguments and completion
SvnCall(op, url, path, rev, text, msg) ==
  [op |-> op, url |-> url, path |-> path, rev |-> rev, text |-> text,
   msg |-> msg, ok |-> TRUE]

\* The run so far: st.calls; st.halt, "ok" or how the run ended: "svnfail"
\* (SvnException of executeSvn), "nocommit" (SvnException of getCommitBefore),
\* "notdescendant" (SvnException of getRelativePath and ExternalTree.add),
\* "badline" (a declaration line without a space), "exit0" and "exit1"
\* (sys.exit); st.msgs, the messageList of the triple being planned; st.next,
\* the work list; st.copies and st.curTemp; and the histories st.seen and
\* st.res
Halt(st, how) == [st EXCEPT !.halt = how]

\* executeSvn: the call is made; succeeds says whether it returned 0
executeSvn(st, call, succeeds) ==
  IF st.halt # "ok" THEN st
  ELSE IF succeeds THEN [st EXCEPT !.calls = Append(@, call)]
  ELSE [st EXCEPT !.calls = Append(@, [call EXCEPT !.ok = FALSE]),
                  !.halt = "svnfail"]

\* getRepositoryRoot(path); wc is the url checked out at a local path
getRepositoryRoot(st, path, wc) ==
  LET target == IF isUrl(path) \/ StartsWith(path, <<"^", "/">>)
                THEN Absolute(path) ELSE wc
  IN [st |-> executeSvn(st, SvnCall("info", <<>>, path, NoBound, <<>>, <<>>), TRUE),
      val |-> RepoOf(target)]

\* getCommitBefore(url, reference): [st, val], val = [revision, date]
getCommitBefore(st, url, reference) ==
  LET Entry(st1, target, found) ==
        IF st1.halt # "ok" THEN [st |-> st1, val |-> [revision |-> 0, date |-> 0]]
        ELSE IF found = {}
        THEN [st |-> Halt(st1, "nocommit"), val |-> [revision |-> 0, date |-> 0]]
        ELSE [st |-> st1,
              val |-> [revision |-> SetMax(found),
                       date |-> DateOf(RepoOf(target), SetMax(found))]]
      Log(target) ==
        Entry(executeSvn(st, SvnCall("log", url, <<>>, reference, <<"before">>, <<>>),
                         target \in Nodes),
              target, AtOrBefore(target, reference))
  IN Log(Absolute(url))

\* getCommit(url, reference), asked of a repository root
getCommit(st, url, reference) ==
  LET Entry(st1, rev) ==
        IF st1.halt # "ok" THEN [st |-> st1, val |-> [revision |-> 0, date |-> 0]]
        ELSE [st |-> st1, val |-> [revision |-> rev, date |-> DateOf(RepoOf(url), rev)]]
      Log(rev) ==
        Entry(executeSvn(st, SvnCall("log", url, <<>>, reference, <<"at">>, <<>>),
                         rev \in 1..MaxRev),
              rev)
  IN Log(Peg(RepoOf(url), reference))

\* ---------------------------------------------------------- getExternals
\* One declaration line: [ok, name, url, revision]; ok = FALSE when the line
\* has no separating space
ParseLine(l) ==
  LET BaseName(rest) ==
        IF Len(rest) >= 2 /\ Head(rest) = "\"" /\ rest[Len(rest)] = "\""
        THEN SubSeq(rest, 2, Len(rest) - 1) ELSE rest
      \* re.match(r"(.*)@(\d+)", url): the last "@" that a digit follows
      Ats(url) == {i \in 1..(Len(url) - 1) : url[i] = "@" /\ url[i + 1] \in Digits}
      Pinned(baseName, url, at) ==
        [ok |-> TRUE, name |-> baseName, url |-> SubSeq(url, 1, at - 1),
         revision |-> DigitVal(url[at + 1])]
      Entry(baseName, url, ats) ==
        IF ats # {} THEN Pinned(baseName, url, SetMax(ats))
        ELSE [ok |-> TRUE, name |-> baseName, url |-> url, revision |-> NoRev]
      Parts(baseName, url) == Entry(baseName, url, Ats(url))
      At(pos) ==
        IF pos = 0 THEN [ok |-> FALSE, name |-> <<>>, url |-> <<>>, revision |-> NoRev]
        ELSE Parts(BaseName(SubSeq(l, pos + 1, Len(l))), SubSeq(l, 1, pos - 1))
  IN At(Find(l, " "))

RECURSIVE AddLines(_, _, _, _)
RECURSIVE AddLine(_, _, _, _, _)
RECURSIVE AddEntry(_, _, _, _, _)
\* The loop over the lines of one target (svn.py 191-209)
AddLines(tree, lines, base, repo) ==
  IF lines = <<>> \/ tree.err # "ok" THEN tree
  ELSE AddLine(tree, lines, base, repo, Strip(Head(lines)))

\* svn.py 192-194: l the first line, stripped
AddLine(tree, lines, base, repo, l) ==
  IF l = <<>> THEN AddLines(tree, Tail(lines), base, repo)
  ELSE AddEntry(tree, lines, base, repo, ParseLine(l))

\* svn.py 196-209: p the first line, parsed
AddEntry(tree, lines, base, repo, p) ==
  IF ~p.ok THEN [tree EXCEPT !.err = "badline"]
  ELSE AddLines(TreeAdd(tree, pathJoin(base, p.name), p.url, repo, p.revision),
                Tail(lines), base, repo)

\* What `svn propget svn:externals -R path` lists: one target per directory
\* that has the property
Targets(path, content) ==
  [i \in 1..Len(props[content]) |->
     [path |-> IF props[content][i].dir = <<>> THEN path
               ELSE pathJoin(path, props[content][i].dir),
      text |-> props[content][i].text]]

RECURSIVE ReadTargets(_, _, _, _)
RECURSIVE ReadTarget(_, _, _, _)
RECURSIVE ReadLines(_, _, _, _, _)
\* The loop over the targets (svn.py 188-209)
ReadTargets(st, tree, targets, wc) ==
  IF st.halt # "ok" \/ targets = <<>> THEN [st |-> st, tree |-> tree]
  ELSE ReadTarget(getRepositoryRoot(st, Head(targets).path, wc), tree, targets, wc)

\* svn.py 190-191: r the repository root of the first target
ReadTarget(r, tree, targets, wc) ==
  IF r.st.halt # "ok" THEN [st |-> r.st, tree |-> tree]
  ELSE ReadLines(r.st, tree,
                 AddLines(tree, SplitOn(Head(targets).text, "\n"),
                          Head(targets).path, r.val),
                 targets, wc)

\* Mutant: a line without a space is skipped with the rest of its target
ReadLinesAnyway(st, tree, t2, targets, wc) ==
  ReadTargets(st, [t2 EXCEPT !.err = "ok"], Tail(targets), wc)

\* svn.py 197-198, 209: t2 the tree with the lines of the first target
ReadLines(st, tree, t2, targets, wc) ==
  IF t2.err # "ok" THEN [st |-> Halt(st, t2.err), tree |-> tree]
  ELSE ReadTargets(st, t2, Tail(targets), wc)

\* getExternals(path, recursive=True, revision): [st, tree].  wc is the url
\* checked out at path when path is a working copy; a url is read at the
\* revision asked for
getExternals(st, path, revision, wc) ==
  LET Read(st1, content) ==
        IF st1.halt # "ok" THEN [st |-> st1, tree |-> ExternalTree(path)]
        ELSE ReadTargets(st1, ExternalTree(path), Targets(path, content), wc)
      Propget(content) ==
        Read(executeSvn(st, SvnCall("propget", <<>>, path, revision, <<>>, <<>>),
                        IF isUrl(path) THEN ExistsAt(path, revision)
                        ELSE content \in Nodes),
             content)
  IN Propget(IF isUrl(path) THEN path ELSE wc)

\* ---------------------------------------------------------- setExternals
generateLine(entry) ==
  entry.url
    \o (IF entry.revision # NoRev THEN <<"@", DigitTok(entry.revision)>> ELSE <<>>)
    \o <<" ">>
    \o (IF \E i \in 1..Len(entry.name) : entry.name[i] = " "
        THEN <<"\"">> \o entry.name \o <<"\"">> ELSE entry.name)

setExternals(st, values) ==
  LET newExternal == JoinWith([i \in 1..Len(values.data) |-> generateLine(values.data[i])],
                              <<"\n">>)
  IN executeSvn(st, SvnCall("propset", <<>>, values.basePath, NoBound, newExternal, <<>>),
                TRUE)

\* ------------------------------------------------------ mapExternalBefore
\* Mutant: the pin is not tested, every entry is looked up
mapExternalAlwaysLookup(st, entry, rootRepository, intRevision, extDate) ==
  LET Pinned(r) == [st |-> r.st, val |-> ExternalInfo(entry.name, entry.url, r.val.revision)]
      Before(url) ==
        Pinned(getCommitBefore(st, url,
                               IF StartsWith(url, rootRepository \o <<"/">>)
                               THEN RevBound(intRevision) ELSE DateBound(extDate)))
  IN Before(fullUrl(entry))

\* Mutant: the prefix test lacks the separator
mapExternalBareRoot(st, entry, rootRepository, intRevision, extDate) ==
  IF entry.revision # NoRev THEN [st |-> st, val |-> entry]
  ELSE LET Pinned(r) ==
             [st |-> r.st, val |-> ExternalInfo(entry.name, entry.url, r.val.revision)]
           Before(url) ==
             Pinned(getCommitBefore(st, url,
                                    IF StartsWith(url, rootRepository)
                                    THEN RevBound(intRevision) ELSE DateBound(extDate)))
       IN Before(fullUrl(entry))

\* Mutant: the entry returned carries the absolute url
mapExternalAbsolute(st, entry, rootRepository, intRevision, extDate) ==
  IF entry.revision # NoRev
  THEN [st |-> st, val |-> ExternalInfo(entry.name, fullUrl(entry), entry.revision)]
  ELSE LET Pinned(r, url) ==
             [st |-> r.st, val |-> ExternalInfo(entry.name, url, r.val.revision)]
           Before(url) ==
             Pinned(getCommitBefore(st, url,
                                    IF StartsWith(url, rootRepository \o <<"/">>)
                                    THEN RevBound(intRevision) ELSE DateBound(extDate)),
                    url)
       IN Before(fullUrl(entry))

\* Mutant: only the externals of the root repository are resolved
mapExternalInternalOnly(st, entry, rootRepository, intRevision, extDate) ==
  IF entry.revision # NoRev THEN [st |-> st, val |-> entry]
  ELSE IF StartsWith(fullUrl(entry), rootRepository \o <<"/">>)
  THEN LET Pinned(r) ==
             [st |-> r.st, val |-> ExternalInfo(entry.name, entry.url, r.val.revision)]
       IN Pinned(getCommitBefore(st, fullUrl(entry), RevBound(intRevision)))
  ELSE [st |-> st, val |-> entry]

\* Mutant: every floating entry is looked up by the date
mapExternalByDate(st, entry, rootRepository, intRevision, extDate) ==
  IF entry.revision # NoRev THEN [st |-> st, val |-> entry]
  ELSE LET Pinned(r) ==
             [st |-> r.st, val |-> ExternalInfo(entry.name, entry.url, r.val.revision)]
       IN Pinned(getCommitBefore(st, fullUrl(entry), DateBound(extDate)))

\* Mutant: every floating entry is looked up at the youngest revision
mapExternalAtHead(st, entry, rootRepository, intRevision, extDate) ==
  IF entry.revision # NoRev THEN [st |-> st, val |-> entry]
  ELSE LET Pinned(r) ==
             [st |-> r.st, val |-> ExternalInfo(entry.name, entry.url, r.val.revision)]
       IN Pinned(getCommitBefore(st, fullUrl(entry), RevBound(MaxRev)))

\* Mutant: the prefix test is made with the repository of the entry
mapExternalOwnRepository(st, entry, rootRepository, intRevision, extDate) ==
  IF entry.revision # NoRev THEN [st |-> st, val |-> entry]
  ELSE LET Pinned(r) ==
             [st |-> r.st, val |-> ExternalInfo(entry.name, entry.url, r.val.revision)]
           Before(url) ==
             Pinned(getCommitBefore(st, url,
                                    IF StartsWith(url, entry.repository \o <<"/">>)
                                    THEN RevBound(intRevision) ELSE DateBound(extDate)))
       IN Before(fullUrl(entry))

\* The functor applied to one entry: [st, val]
mapExternalBefore(st, entry, rootRepository, intRevision, extDate) ==
  IF entry.revision # NoRev THEN [st |-> st, val |-> entry]
  ELSE LET Pinned(r) ==
             [st |-> r.st, val |-> ExternalInfo(entry.name, entry.url, r.val.revision)]
           Before(url) ==
             Pinned(getCommitBefore(st, url,
                                    IF StartsWith(url, rootRepository \o <<"/">>)
                                    THEN RevBound(intRevision) ELSE DateBound(extDate)))
       IN Before(fullUrl(entry))

RECURSIVE MapResolveFrom(_, _, _, _, _, _)
RECURSIVE MapResolveNext(_, _, _, _, _, _)
\* The loop of DirWithExternals.map (svn.py 122-126)
MapResolveFrom(st, ret, es, rootRepository, intRevision, extDate) ==
  IF st.halt # "ok" \/ es = <<>> THEN [st |-> st, val |-> ret]
  ELSE MapResolveNext(mapExternalBefore(st, Head(es), rootRepository, intRevision, extDate),
                      ret, es, rootRepository, intRevision, extDate)

\* svn.py 123-126: r the first entry, mapped
MapResolveNext(r, ret, es, rootRepository, intRevision, extDate) ==
  IF r.st.halt # "ok" THEN [st |-> r.st, val |-> ret]
  ELSE MapResolveFrom(r.st, DirAdd(ret, r.val.name, r.val.url, r.val.revision),
                      Tail(es), rootRepository, intRevision, extDate)

\* DirWithExternals.map(mapExternalBefore(...)): [st, val]
MapResolve(st, d, rootRepository, intRevision, extDate) ==
  MapResolveFrom(st, DirWithExternals(d.basePath, d.repository), listFull(d),
                 rootRepository, intRevision, extDate)

\* -------------------------------------------------------- tagTimeMachine
\* temporaryDir: os.path.normpath(os.path.abspath("temp"))
temporaryDir == normpath(<<"/", "cwd", "/", "temp">>)

\* A line of a commit message
MsgLine(kind, url, rev, bound) ==
  [kind |-> kind, url |-> url, rev |-> rev, bound |-> bound]

\* message=None, the default of the argument -m
NoMessage == <<MsgLine("None", <<>>, NoRev, NoBound)>>

\* message: the argument, or "Tag of revision <maxRevision>" when it is None
\* (svn-time-machine.py 107-108)
message ==
  IF messageArg = NoMessage THEN <<MsgLine("Tag of revision", <<>>, NoRev, maxRevision)>>
  ELSE messageArg

\* newTemporaryDir: the directory made and the counter after it
RECURSIVE StrOf(_)
\* f"{curTemp}": the decimal digits of a number
StrOf(n) == IF n < 10 THEN <<DigitTok(n)>> ELSE StrOf(n \div 10) \o <<DigitTok(n % 10)>>

\* The name tried and the counter after it (svn-time-machine.py 114-115)
newTemporaryDir(cur) ==
  [dir |-> osPathJoin(temporaryDir, StrOf(cur)), cur |-> cur + 1]

isInternalUrl(url) == StartsWith(url, repository \o <<"/">>)

RECURSIVE DeltaPath(_, _)
\* The components between dest and base (svn-time-machine.py 130-134); the
\* loop of the source does not end when dest is no ancestor of base, which
\* no path of the bounded world is
DeltaPath(base, dest) ==
  IF base = dest \/ Len(base) <= 1 THEN <<>>
  ELSE DeltaPath(osPathSplit(base)[1], dest) \o <<osPathSplit(base)[2]>>

RECURSIVE DestUrlFrom(_, _)
\* svn-time-machine.py 136-139
DestUrlFrom(destUrl, deltaPath) ==
  IF deltaPath = <<>> THEN destUrl
  ELSE DestUrlFrom((IF EndsWith(destUrl, <<"/">>) THEN destUrl ELSE destUrl \o <<"/">>)
                     \o quote(Head(deltaPath)),
                   Tail(deltaPath))

\* svn-time-machine.py 135: the walk starts from the destination of the run
DestUrl(deltaPath) == DestUrlFrom(destination, deltaPath)

\* A triple of the work list; showedUrl = <<>> is None
Triple(url, showedUrl, destUrl) ==
  [url |-> url, showedUrl |-> showedUrl, destUrl |-> destUrl]

\* svn.checkout / svn.export / svn.add / svn.copy
checkout(st, path, url, revision) ==
  executeSvn(st, SvnCall("checkout", url, path, revision, <<>>, <<>>),
             ExistsAt(Absolute(url), revision))

export(st, path, url, revision) ==
  executeSvn(st, SvnCall("export", url, path, revision, <<>>, <<>>),
             ExistsAt(Absolute(url), revision))

add(st, path) == executeSvn(st, SvnCall("add", <<>>, path, NoBound, <<>>, <<>>), TRUE)

copy(st, src, dst, msg) ==
  executeSvn(st, SvnCall("copy", dst, src, NoBound, <<>>, msg), TRUE)

\* Mutant: imports are never refused
ImportNeverRefused == FALSE

\* if not enableImports: ... sys.exit(0)   (svn-time-machine.py 155-157)
ImportRefused == ~enableImports

\* Mutant: no external is taken for a complex one
HasNoExternals(tree) == FALSE

\* ExternalTree.__bool__, the test of filterOutComplex (129)
HasExternals(tree) == tree.data # <<>>

\* Mutant: the copy is executed as soon as the triple is planned
CopyAtOnce(st, dest, destUrl, msg) ==
  copy([st EXCEPT !.copies = Append(@, [dest |-> dest, destUrl |-> destUrl, message |-> msg])],
       dest, destUrl, msg)

\* A planning that leaves the copy of a scratch directory out
ForgetCopy(st, dest, destUrl, msg) == st

\* copies.append((dest, destUrl, curMessage))   (svn-time-machine.py 199)
DeferCopy(st, dest, destUrl, msg) ==
  [st EXCEPT !.copies = Append(@, [dest |-> dest, destUrl |-> destUrl, message |-> msg])]

\* getLocalPath of handleExternalCheckout: [ok, val]
getLocalPath(entry, url) ==
  LET Unquoted(parts) == JoinWith([i \in 1..Len(parts) |-> unquote(parts[i])], <<"/">>)
      Local(rel) ==
        [ok |-> rel.ok,
         val |-> IF rel.ok
                 THEN osPathJoin(fullPath(entry), Unquoted(SplitOn(rel.val, "/")))
                 ELSE <<>>]
  IN Local(getRelativePath(fullUrl(entry), url))

\* The None the functor of filterOutComplex returns for a complex external
NoEntry == ExternalInfo(<<>>, <<>>, NoRev)

\* The history of the resolver in handleDirWithExternals: the group given to
\* it, the group it returned and the calls it made (calls[first + 1 .. last])
Resolved(st, d, r1) ==
  [st |-> [r1.st EXCEPT !.res =
             Append(@, [input |-> d, output |-> r1.val, first |-> Len(st.calls),
                        last |-> Len(r1.st.calls), returned |-> r1.st.halt = "ok"])],
   val |-> r1.val]

\* svn.setExternals(dirWithExternal)   (svn-time-machine.py 152)
SetDir(r2) == IF r2.st.halt # "ok" THEN r2.st ELSE setExternals(r2.st, r2.val)

RECURSIVE filterOutComplex(_, _, _)
RECURSIVE FilterEntry(_, _, _)
RECURSIVE MapFilterFrom(_, _, _, _)
RECURSIVE MapFilterNext(_, _, _, _)
RECURSIVE handleDirWithExternals(_, _, _)
RECURSIVE FilterDir(_, _, _)
RECURSIVE handleExternalCheckout(_, _, _)
RECURSIVE ImportTree(_, _, _)
RECURSIVE ImportDirs(_, _, _, _)
RECURSIVE ImportDir(_, _, _, _, _)

\* The functor of filterOutComplex applied to e: [st, keep, val]; keep = FALSE
\* is the None the functor returns for a complex external
filterOutComplex(st, e, dest) ==
  FilterEntry(getExternals([st EXCEPT !.seen = Append(@, [e |-> e, dest |-> dest])],
                           fullUrl(e), RevBound(e.revision), <<>>),
              e, dest)

\* svn-time-machine.py 129-147, g the externals that the entry declares
FilterEntry(g, e, dest) ==
  IF g.st.halt # "ok" THEN [st |-> g.st, keep |-> FALSE, val |-> NoEntry]
  ELSE IF HasExternals(g.tree)
  THEN IF isInternalUrl(fullUrl(e))
       THEN [st |-> [g.st EXCEPT !.next =
                       Append(@, Triple(fullUrl(e), e.url,
                                        DestUrl(DeltaPath(fullPath(e), dest))))],
             keep |-> FALSE, val |-> NoEntry]
       ELSE [st |-> handleExternalCheckout(g.st, e, dest), keep |-> FALSE,
             val |-> NoEntry]
  ELSE [st |-> g.st, keep |-> TRUE,
        val |-> ExternalInfo(e.name,
                             IF isInternalUrl(fullUrl(e)) THEN e.url ELSE fullUrl(e),
                             e.revision)]

\* DirWithExternals.map(filterOutComplex(dest, messageList)): [st, val]
MapFilterFrom(st, ret, es, dest) ==
  IF st.halt # "ok" \/ es = <<>> THEN [st |-> st, val |-> ret]
  ELSE MapFilterNext(filterOutComplex(st, Head(es), dest), ret, es, dest)

\* svn.py 123-126: the entry mapped is added unless it is None
MapFilterNext(r, ret, es, dest) ==
  IF r.st.halt # "ok" THEN [st |-> r.st, val |-> ret]
  ELSE MapFilterFrom(r.st,
                     IF r.keep THEN DirAdd(ret, r.val.name, r.val.url, r.val.revision)
                     ELSE ret,
                     Tail(es), dest)

handleDirWithExternals(st, d, dest) ==
  IF st.halt # "ok" THEN st
  ELSE FilterDir(Resolved(st, d,
                          MapResolve(st, d, repository, internalRevision, externalDate)),
                 d, dest)

\* svn-time-machine.py 151-152, r the group resolved
FilterDir(r, d, dest) ==
  IF r.st.halt # "ok" THEN r.st
  ELSE SetDir(MapFilterFrom(r.st, DirWithExternals(d.basePath, d.repository),
                            listFull(r.val), dest))

\* The loop of handleExternalCheckout over the groups (168-172)
ImportDirs(st, dirs, entry, dest) ==
  IF st.halt # "ok" \/ dirs = <<>> THEN st
  ELSE ImportDir(st, dirs, entry, dest, getLocalPath(entry, Head(dirs).basePath))

\* svn-time-machine.py 169-172, lp the local path of the first group
ImportDir(st, dirs, entry, dest, lp) ==
  IF ~lp.ok THEN Halt(st, "notdescendant")
  ELSE ImportDirs(handleDirWithExternals(
                    st,
                    [DirWithExternals(lp.val, Head(dirs).repository)
                       EXCEPT !.data = Head(dirs).data],
                    dest),
                  Tail(dirs), entry, dest)

handleExternalCheckout(st, entry, dest) ==
  IF st.halt # "ok" THEN st
  ELSE IF ImportRefused THEN Halt(st, "exit0")
  ELSE ImportTree(
         getExternals(
           add(export([st EXCEPT !.msgs =
                         Append(@, <<MsgLine("- Import of", fullUrl(entry),
                                             entry.revision, NoBound)>>)],
                      fullPath(entry), fullUrl(entry), RevBound(entry.revision)),
               fullPath(entry)),
           fullUrl(entry), RevBound(entry.revision), <<>>),
         entry, dest)

\* svn-time-machine.py 167-168, g the externals of the import
ImportTree(g, entry, dest) == ImportDirs(g.st, g.tree.data, entry, dest)

RECURSIVE HandleDirs(_, _, _)
\* The loop of handleInternalCheckout over the groups (194-195)
HandleDirs(st, dirs, dest) ==
  IF st.halt # "ok" \/ dirs = <<>> THEN st
  ELSE HandleDirs(handleDirWithExternals(st, Head(dirs), dest), Tail(dirs), dest)

\* Only the first element of the message list
FirstOnly(ms) == Head(ms)

RECURSIVE Flatten(_)
\* '\n'.join(messageList): the lines of all the elements, in order
Flatten(ms) == IF ms = <<>> THEN <<>> ELSE Head(ms) \o Flatten(Tail(ms))

\* checkout at the bound of the instant itself
CheckoutAtInstant(url) == maxRevision

\* internalRevision if isInternal else "{%s}"%(externalDate,)   (177, 192)
CheckoutBound(url) ==
  IF isInternalUrl(url) THEN RevBound(internalRevision) ELSE DateBound(externalDate)

\* svn-time-machine.py 197-199: st the run after the loop over the groups
CopyLater(st, dest, destUrl) ==
  IF st.halt # "ok" THEN st ELSE DeferCopy(st, dest, destUrl, Flatten(st.msgs))

\* svn-time-machine.py 194-199: g the externals of the working copy
PlanDirs(g, dest, destUrl) == CopyLater(HandleDirs(g.st, g.tree.data, dest), dest, destUrl)

\* svn-time-machine.py 177-199: tmp the scratch directory made
CheckoutIn(st, url, destUrl, tmp) ==
  PlanDirs(getExternals(checkout(getCommitBefore([st EXCEPT !.curTemp = tmp.cur], url,
                                                 CheckoutBound(url)).st,
                                 tmp.dir, url, CheckoutBound(url)),
                        tmp.dir, NoBound, Absolute(url)),
           tmp.dir, destUrl)

handleInternalCheckout(st, url, showedUrl, destUrl) ==
  CheckoutIn([st EXCEPT !.msgs =
                <<IF showedUrl = <<>> THEN message
                  ELSE message \o <<MsgLine("- Tag of external", destUrl, NoRev, NoBound)>> >>],
             url, destUrl, newTemporaryDir(st.curTemp))

\* ------------------------------------------------------- the bounded world
Line(url, name) == url \o <<" ">> \o name

PinnedLine(url, rev, name) == url \o <<"@", DigitTok(rev)>> \o <<" ">> \o name

\* The property of one directory, or no property when there is no line
PropsOf(dir, lines) ==
  IF lines = <<>> THEN <<>>
  ELSE <<[dir |-> dir, text |-> JoinWith(lines, <<"\n">>)]>>

\* Declarations of Foo on the trunk: none, floating, pinned, or absolute
\* with a name of two components
TrunkFoo ==
  {<<>>,
   <<Line(<<"^", "/", "foo">>, <<"foo">>)>>,
   <<PinnedLine(<<"^", "/", "foo">>, 1, <<"foo">>)>>,
   <<Line(Foo, <<"libs", "/", "foo">>)>>}

\* Declarations of Lib (other repository) on the trunk
TrunkLib ==
  {<<>>,
   <<Line(Lib, <<"ext">>)>>,
   <<PinnedLine(Lib, 1, <<"ext">>)>>}

TrunkBar == {<<>>, <<Line(<<"^", "/", "bar">>, <<"bar">>)>>}

\* Declarations of Foo; the last ones hold a blank line and then a line that
\* has no separating space
FooProps ==
  {<<>>,
   PropsOf(<<>>, <<Line(<<"^", "/", "bar">>, <<"bar">>)>>),
   PropsOf(<<>>, <<Line(Lib, <<"ext">>)>>),
   PropsOf(<<"d">>, <<Line(<<"^", "/", "bar">>, <<"\"", "my", " ", "lib", "\"">>)>>),
   PropsOf(<<>>, <<Line(Lib, <<"ext">>), (<<" ">>), (<<"junk">>)>>)}

BarProps == {PropsOf(<<>>, <<Line(Sub, <<"s">>)>>)}

LibProps ==
  {<<>>,
   PropsOf(<<>>, <<Line(<<"^", "/", "sub">>, <<"s">>)>>),
   PropsOf(<<"d">>, <<Line(<<"^", "/", "sub">>, <<"s">>)>>),
   PropsOf(<<"d">>, <<Line(Bar, <<"b">>)>>)}

Worlds ==
  {[n \in Nodes |->
      IF n = Trunk THEN PropsOf(<<>>, tb \o tl \o tf)
      ELSE IF n = Foo THEN fp
      ELSE IF n = Bar THEN bp
      ELSE IF n = Lib THEN lp
      ELSE <<>>] :
     tf \in TrunkFoo, tl \in TrunkLib, tb \in TrunkBar,
     fp \in FooProps, bp \in BarProps, lp \in LibProps}

\* Destinations: in the repository of the source (absolute, or relative to
\* the repository root), and in the other repository
Destinations ==
  {RepoA \o <<"/", "tags", "/", "x">>,
   <<"^", "/", "tags", "/", "x">>,
   RepoB \o <<"/", "tags", "/", "x">>}

\* The instant: a revision number, or a date between two commits
Instants == {RevBound(r) : r \in 1..MaxRev} \cup {DateBound(15)}

\* The url to tag: the trunk, or Foo, which no commit touches after the first
Sources == {Trunk, Foo}

\* The message argument: absent, or a text
Messages == {NoMessage, <<MsgLine("release", <<>>, NoRev, NoBound)>>}

\* The declarations of the trunk matter to a run on the trunk only
Init ==
  /\ props \in Worlds
  /\ source \in Sources
  /\ source = Foo => props[Trunk] = <<>>
  /\ destination \in Destinations
  /\ maxRevision \in Instants
  /\ useRootRevisionAsMax \in BOOLEAN
  /\ enableImports \in BOOLEAN
  /\ messageArg \in Messages
  /\ pc = "start"
  /\ repository = <<>>
  /\ internalRevision = 0
  /\ externalDate = 0
  /\ curTemp = 0
  /\ nextSteps = <<>>
  /\ copies = <<>>
  /\ copied = 0
  /\ planned = <<>>
  /\ seen = <<>>
  /\ res = <<>>
  /\ calls = <<>>
  /\ occupied = {}
  /\ alloc = <<>>
  /\ checkoutRun = <<>>

\* ---------------------------------------------------------------- actions
\* The run as the operators above thread it
Run(h) ==
  [calls |-> calls, halt |-> h, msgs |-> <<>>, next |-> nextSteps,
   copies |-> copies, curTemp |-> curTemp, seen |-> seen, res |-> res]

\* The run in which the k-th call is the one that fails; the histories keep
\* what they held before the step
FailAt(st, k) ==
  [st EXCEPT !.calls = SubSeq(st.calls, 1, k - 1) \o <<[st.calls[k] EXCEPT !.ok = FALSE]>>,
             !.halt = "svnfail", !.seen = seen, !.res = res]

\* The outcomes of a step that makes the calls of st after those already
\* made: it runs as st says, or one of its calls fails
Outcomes(st) ==
  {st} \cup {FailAt(st, k) : k \in (Len(calls) + 1)..Len(st.calls)}

\* The outcomes of a step when the client may fail (faults) or never does
OutcomesIf(faults, st) == IF faults THEN Outcomes(st) ELSE {st}

\* if not destination.startswith(repository+"/")   (svn-time-machine.py 88)
DestinationAccepted(repo) == StartsWith(destination, repo \o <<"/">>)

\* tagTimeMachine up to the work loop (svn-time-machine.py 85-108, 201)
BeginRun ==
  LET Revisions(repo, commitData, rootCommitData) ==
        [st |-> rootCommitData.st, repo |-> repo,
         ir |-> IF useRootRevisionAsMax THEN rootCommitData.val.revision
                ELSE commitData.val.revision,
         ed |-> IF useRootRevisionAsMax THEN rootCommitData.val.date
                ELSE IF maxRevision.kind = "date" THEN maxRevision.val
                ELSE commitData.val.date]
      Commits(repo, commitData) ==
        Revisions(repo, commitData, getCommitBefore(commitData.st, source, maxRevision))
      Root(r0) ==
        IF ~DestinationAccepted(r0.val)
        THEN [st |-> Halt(r0.st, "exit1"), repo |-> r0.val, ir |-> 0, ed |-> 0]
        ELSE Commits(r0.val, getCommit(r0.st, r0.val, maxRevision))
  IN Root(getRepositoryRoot(Run("ok"), source, <<>>))

BeginStep(faults) ==
  /\ pc = "start"
  /\ \E run \in {BeginRun} : \E st \in OutcomesIf(faults, run.st) :
       /\ calls' = st.calls
       /\ pc' = IF st.halt = "ok" THEN "plan" ELSE st.halt
       /\ repository' = run.repo
       /\ internalRevision' = IF st.halt = "ok" THEN run.ir ELSE 0
       /\ externalDate' = IF st.halt = "ok" THEN run.ed ELSE 0
       /\ nextSteps' = IF st.halt = "ok" THEN <<Triple(source, <<>>, destination)>>
                       ELSE <<>>
  /\ UNCHANGED <<props, source, destination, maxRevision, useRootRevisionAsMax,
                 enableImports, messageArg, curTemp, copies, copied, planned, seen, res,
                 occupied, alloc, checkoutRun>>

\* The first triple, and the list without it
PopFirst(list) == [top |-> Head(list), rest |-> Tail(list)]

\* nextSteps.pop(): the last triple, and the list without it
Pop(list) == [top |-> list[Len(list)], rest |-> SubSeq(list, 1, Len(list) - 1)]

\* One turn of the work loop: pop and handleInternalCheckout (202-204); the
\* loop ends when the list is empty
PlanStep(faults) ==
  /\ pc = "plan"
  /\ nextSteps # <<>>
  /\ LET top == Pop(nextSteps).top
         st0 == [Run("ok") EXCEPT !.next = Pop(nextSteps).rest]
         full == handleInternalCheckout(st0, top.url, top.showedUrl, top.destUrl)
     IN \E st \in OutcomesIf(faults, full) :
          /\ calls' = st.calls
          /\ planned' = Append(planned, top)
          /\ occupied' = occupied \cup {newTemporaryDir(curTemp).dir}
          /\ seen' = st.seen
          /\ res' = st.res
          /\ IF st.halt = "ok"
             THEN /\ pc' = IF st.next = <<>> THEN "copy" ELSE "plan"
                  /\ nextSteps' = st.next
                  /\ copies' = st.copies
                  /\ curTemp' = st.curTemp
             ELSE /\ pc' = st.halt
                  /\ nextSteps' = st0.next
                  /\ UNCHANGED <<copies, curTemp>>
  /\ UNCHANGED <<props, source, destination, maxRevision, useRootRevisionAsMax,
                 enableImports, messageArg, repository, internalRevision, externalDate, copied,
                 alloc, checkoutRun>>

\* One turn of the copy loop (206-207)
CopyStep(faults) ==
  /\ pc = "copy"
  /\ copied < Len(copies)
  /\ LET c == copies[copied + 1]
     IN \E st \in OutcomesIf(faults, copy(Run("ok"), c.dest, c.destUrl, c.message)) :
          /\ calls' = st.calls
          /\ copied' = IF st.halt = "ok" THEN copied + 1 ELSE copied
          /\ pc' = IF st.halt # "ok" THEN st.halt
                   ELSE IF copied + 1 = Len(copies) THEN "done" ELSE "copy"
  /\ UNCHANGED <<props, source, destination, maxRevision, useRootRevisionAsMax,
                 enableImports, messageArg, repository, internalRevision, externalDate,
                 curTemp, nextSteps, copies, planned, seen, res, occupied, alloc,
                 checkoutRun>>

\* The steps of a run in which any call of the client may fail
Begin == BeginStep(TRUE)

Plan == PlanStep(TRUE)

Copy == CopyStep(TRUE)

Next == Begin \/ Plan \/ Copy

Spec == Init /\ [][Next]_vars

\* ------------------------------------------ runs without adapter failure
\* The steps of a run in which every call of the client does what was asked
BeginOk == BeginStep(FALSE)

PlanOk == PlanStep(FALSE)

CopyOk == CopyStep(FALSE)

NextOk == BeginOk \/ PlanOk \/ CopyOk

\* The runs with the default message, to a destination written in full
InitOk ==
  /\ Init
  /\ messageArg = NoMessage
  /\ isUrl(destination)

\* while len(nextSteps)>0 (201): the work loop has a turn to take
Working == pc = "plan" /\ nextSteps # <<>>

\* The script runs on: the interpreter takes each next step of the loops.
\* Working is the enabling condition of PlanOk, so the last conjunct is
\* WF_vars(PlanOk) with ENABLED <<PlanOk>>_vars written out.
SpecOk ==
  /\ InitOk
  /\ [][NextOk]_vars
  /\ WF_vars(BeginOk)
  /\ WF_vars(CopyOk)
  /\ ([]<>~Working \/ []<><<PlanOk>>_vars)

\* ------------------------------------- newTemporaryDir, several processes
\* Runs of the script started in the same working directory share
\* temporaryDir; each has its own counter curTemp.
NumProcs == 2

\* Calls of newTemporaryDir one process makes (one for each triple it plans)
MaxDirs == 2

\* Directories "0", "1", ... that earlier runs may have left in temporaryDir
MaxStale == 1

Procs == 1..NumProcs

\* The variables of the run, which the allocation of a directory leaves alone
runVars == <<props, source, destination, maxRevision, useRootRevisionAsMax,
             enableImports, messageArg, pc, repository, internalRevision, externalDate,
             curTemp, nextSteps, copies, copied, planned, seen, res, calls,
             checkoutRun>>

\* os.mkdir on a name that exists
FileNeverExists(dir, dirs) == FALSE

\* os.mkdir raises FileExistsError when the name exists (line 116)
FileExists(dir, dirs) == dir \in dirs

\* The processes start before their first call, with curTemp = 0 (line
\* 109), in a temporaryDir that holds any of the names left by earlier runs
InitDirs ==
  /\ props = [n \in Nodes |-> <<>>]
  /\ source = Trunk
  /\ destination = RepoA \o <<"/", "tags", "/", "x">>
  /\ maxRevision = RevBound(1)
  /\ useRootRevisionAsMax = FALSE
  /\ enableImports = FALSE
  /\ messageArg = NoMessage
  /\ pc = "plan"
  /\ repository = RepoA
  /\ internalRevision = 1
  /\ externalDate = DateOf(RepoA, 1)
  /\ curTemp = 0
  /\ nextSteps = <<>>
  /\ copies = <<>>
  /\ copied = 0
  /\ planned = <<>>
  /\ seen = <<>>
  /\ res = <<>>
  /\ calls = <<>>
  /\ checkoutRun = <<>>
  /\ occupied \in SUBSET {newTemporaryDir(n).dir : n \in 0..(MaxStale - 1)}
  /\ alloc = [p \in Procs |-> [at |-> "out", curTemp |-> 0, before |-> {}, got |-> <<>>]]

\* Is the process about to run a turn of the loop of newTemporaryDir: it is
\* inside a call, or it makes one (handleInternalCheckout, line 175)
Turn(p) == alloc[p].at = "in" \/ Len(alloc[p].got) < MaxDirs

\* What temporaryDir held when the call of the process began
Before(p) == IF alloc[p].at = "in" THEN alloc[p].before ELSE occupied

\* A turn of the loop in which os.mkdir raises FileExistsError: the counter
\* has been stepped, and the loop goes on (113-116, 118-119)
MkdirExists(p) ==
  /\ Turn(p)
  /\ \E t \in {newTemporaryDir(alloc[p].curTemp)} :
       /\ FileExists(t.dir, occupied)
       /\ alloc' = [alloc EXCEPT ![p].at = "in",
                                 ![p].before = Before(p),
                                 ![p].curTemp = t.cur]
  /\ UNCHANGED occupied

\* A turn of the loop in which os.mkdir makes the directory, which is
\* returned (113-117); got keeps, for each directory returned, whether it was
\* absent when the call began and whether it was absent when mkdir ran
MkdirMade(p) ==
  /\ Turn(p)
  /\ \E t \in {newTemporaryDir(alloc[p].curTemp)} :
       /\ ~FileExists(t.dir, occupied)
       /\ occupied' = occupied \cup {t.dir}
       /\ alloc' = [alloc EXCEPT
                      ![p].at = "out",
                      ![p].before = {},
                      ![p].curTemp = t.cur,
                      ![p].got = Append(@, [dir |-> t.dir,
                                            absent |-> t.dir \notin Before(p),
                                            made |-> t.dir \notin occupied])]

NextDirs ==
  /\ \E p \in Procs : MkdirExists(p) \/ MkdirMade(p)
  /\ UNCHANGED runVars

SpecDirs == InitDirs /\ [][NextDirs]_vars

\* ---------------------------------------------------- checkoutTimeMachine
\* The path argument: a directory to check out into
WcPath == normpath(<<"/", "cwd", "/", "wc">>)

\* checkoutTimeMachine(url, path, maxRevision, useRootRevisionAsMax, recurse):
\* source holds url
InitCheckout ==
  /\ props \in Worlds
  /\ source \in Sources
  /\ source = Foo => props[Trunk] = <<>>
  /\ maxRevision \in Instants
  /\ useRootRevisionAsMax \in BOOLEAN
  /\ checkoutRun \in {[path |-> WcPath, recurse |-> b, externals |-> <<>>] : b \in BOOLEAN}
  /\ destination = <<>>
  /\ enableImports = FALSE
  /\ messageArg = NoMessage
  /\ pc = "start"
  /\ repository = <<>>
  /\ internalRevision = 0
  /\ externalDate = 0
  /\ curTemp = 0
  /\ nextSteps = <<>>
  /\ copies = <<>>
  /\ copied = 0
  /\ planned = <<>>
  /\ seen = <<>>
  /\ res = <<>>
  /\ calls = <<>>
  /\ occupied = {}
  /\ alloc = <<>>

\* checkoutTimeMachine up to the revisions (svn-time-machine.py 47-60)
CheckoutRun ==
  LET Revisions(repo, commitData, rootCommitData) ==
        [st |-> rootCommitData.st, repo |-> repo,
         ir |-> IF useRootRevisionAsMax THEN rootCommitData.val.revision
                ELSE commitData.val.revision,
         ed |-> IF useRootRevisionAsMax THEN rootCommitData.val.date
                ELSE IF maxRevision.kind = "date" THEN maxRevision.val
                ELSE commitData.val.date]
      Commits(repo, commitData) ==
        Revisions(repo, commitData, getCommitBefore(commitData.st, source, maxRevision))
      Root(r0) == Commits(r0.val, getCommit(r0.st, r0.val, maxRevision))
  IN Root(getRepositoryRoot(Run("ok"), source, <<>>))

RECURSIVE checkoutTimeMachineExternal(_, _)
RECURSIVE ExternalDirs(_)
RECURSIVE FreezeDirs(_, _)
RECURSIVE Frozen(_)
RECURSIVE CheckoutEntries(_, _)
\* svn-time-machine.py 26-27: the external is checked out where it is
\* declared to be, and its declarations are read
checkoutTimeMachineExternal(st, entry) ==
  IF st.halt # "ok" THEN st
  ELSE ExternalDirs(getExternals(checkout(st, fullPath(entry), fullUrl(entry),
                                          RevBound(entry.revision)),
                                 fullPath(entry), NoBound, Absolute(fullUrl(entry))))

\* svn-time-machine.py 28, g the externals of the external
ExternalDirs(g) == FreezeDirs(g.st, g.tree.data)

\* The loop over the groups (svn-time-machine.py 28-32)
FreezeDirs(st, dirs) ==
  IF st.halt # "ok" \/ dirs = <<>> THEN st
  ELSE FreezeDirs(Frozen(MapResolve(st, Head(dirs), repository, internalRevision,
                                    externalDate)),
                  Tail(dirs))

\* svn-time-machine.py 30-32 and 77-80, r the group resolved: it is written,
\* and each of its entries is checked out
Frozen(r) ==
  IF r.st.halt # "ok" THEN r.st
  ELSE CheckoutEntries(setExternals(r.st, r.val), listFull(r.val))

\* for e in newVersions.listFull()   (svn-time-machine.py 31-32, 79-80)
CheckoutEntries(st, es) ==
  IF st.halt # "ok" \/ es = <<>> THEN st
  ELSE CheckoutEntries(checkoutTimeMachineExternal(st, Head(es)), Tail(es))

\* checkoutTimeMachine up to the loop over the groups (47-74)
CheckoutRoot ==
  /\ pc = "start"
  /\ \E run \in {CheckoutRun} :
       \E g \in {getExternals(checkout(run.st, checkoutRun.path, source, RevBound(run.ir)),
                              checkoutRun.path, NoBound, Absolute(source))} :
         \E st \in Outcomes(g.st) :
           /\ calls' = st.calls
           /\ pc' = IF st.halt # "ok" THEN st.halt
                    ELSE IF g.tree.data = <<>> THEN "done" ELSE "externals"
           /\ repository' = run.repo
           /\ internalRevision' = IF st.halt = "ok" THEN run.ir ELSE 0
           /\ externalDate' = IF st.halt = "ok" THEN run.ed ELSE 0
           /\ checkoutRun' = [checkoutRun EXCEPT
                                !.externals = IF st.halt = "ok" THEN g.tree.data ELSE <<>>]
  /\ UNCHANGED <<props, source, destination, maxRevision, useRootRevisionAsMax,
                 enableImports, messageArg, curTemp, nextSteps, copies, copied, planned,
                 seen, res, occupied, alloc>>

\* One turn of the loop over the groups of the root (75-80)
CheckoutDir ==
  /\ pc = "externals"
  /\ checkoutRun.externals # <<>>
  /\ \E r \in {MapResolve(Run("ok"), Head(checkoutRun.externals), repository,
                          internalRevision, externalDate)} :
       \E full \in {IF checkoutRun.recurse THEN Frozen(r) ELSE SetDir(r)} :
         \E st \in Outcomes(full) :
           /\ calls' = st.calls
           /\ pc' = IF st.halt # "ok" THEN st.halt
                    ELSE IF Tail(checkoutRun.externals) = <<>> THEN "done"
                    ELSE "externals"
           /\ checkoutRun' = [checkoutRun EXCEPT !.externals = Tail(@)]
  /\ UNCHANGED <<props, source, destination, maxRevision, useRootRevisionAsMax,
                 enableImports, messageArg, repository, internalRevision, externalDate,
                 curTemp, nextSteps, copies, copied, planned, seen, res, occupied, alloc>>

NextCheckout == CheckoutRoot \/ CheckoutDir

SpecCheckout == InitCheckout /\ [][NextCheckout]_vars

\* ----------------------------------------------------------------- claims
Running == {"plan", "copy", "done"}

Final == {"done", "svnfail", "nocommit", "notdescendant", "badline", "exit0", "exit1"}

Range(q) == {q[i] : i \in 1..Len(q)}

CopyCalls == {i \in 1..Len(calls) : calls[i].op = "copy"}

PlanningOps == {"checkout", "export", "add", "propset"}

\* C1: no copy is executed while the work list is non-empty, and every copy
\* call comes after the last checkout, export, add and propset call of the
\* run.
C1_CopiesAfterPlanning ==
  /\ CopyCalls # {} => nextSteps = <<>>
  /\ \A i \in CopyCalls : \A j \in (i + 1)..Len(calls) : calls[j].op \notin PlanningOps

\* A finished run of three triples with an import
C1_Witness ==
  /\ pc = "done"
  /\ Len(planned) >= 3
  /\ Cardinality(CopyCalls) >= 3
  /\ \E i \in 1..Len(calls) : calls[i].op = "export"

\* C2 (as claimed): when the run has ended, every pending copy has been
\* executed or none has, whichever call failed.
C2_AllOrNothing == pc \in Final => copied = 0 \/ copied = Len(copies)

\* The calls the resolver made in an application
Lookups(r) == SubSeq(calls, r.first + 1, r.last)

\* The floating entries of a group, in the order of the group
FloatingOf(d) == SelectSeq(listFull(d), LAMBDA e : e.revision = NoRev)

PinnedOf(d) == SelectSeq(listFull(d), LAMBDA e : e.revision # NoRev)

\* C3: an entry whose revision is set comes out of the resolver with the
\* same name, url and revision, and no commit lookup is made for it.
C3_PinnedPassThrough ==
  \A k \in 1..Len(res) :
    /\ Len(Lookups(res[k])) <= Len(FloatingOf(res[k].input))
    /\ \A e \in Range(PinnedOf(res[k].input)) :
         /\ \A c \in Range(Lookups(res[k])) : c.url # fullUrl(e)
         /\ res[k].returned =>
              \E o \in Range(res[k].output.data) :
                o.name = e.name /\ o.url = e.url /\ o.revision = e.revision

\* A group holding a pinned entry went through the resolver together with a
\* floating one
C3_Witness ==
  \E k \in 1..Len(res) :
    /\ res[k].returned
    /\ PinnedOf(res[k].input) # <<>>
    /\ FloatingOf(res[k].input) # <<>>

\* The repository of the source, as the client reports it
RootRepository == RepoOf(Absolute(source))

\* C4: the n-th lookup of an application is for the n-th floating entry;
\* its bound is internalRevision when the target is in the repository of the
\* source, and the date externalDate otherwise.
C4_BoundByMembership ==
  \A k \in 1..Len(res) :
    \A n \in 1..Len(Lookups(res[k])) :
      /\ n <= Len(FloatingOf(res[k].input))
      /\ Lookups(res[k])[n].op = "log"
      /\ Lookups(res[k])[n].url = fullUrl(FloatingOf(res[k].input)[n])
      /\ Lookups(res[k])[n].rev =
           IF RepoOf(fullUrl(FloatingOf(res[k].input)[n])) = RootRepository
           THEN RevBound(internalRevision)
           ELSE DateBound(externalDate)

\* One application looked up an external of each kind
C4_Witness ==
  \E k \in 1..Len(res) :
    /\ \E c \in Range(Lookups(res[k])) : c.rev.kind = "rev"
    /\ \E c \in Range(Lookups(res[k])) : c.rev.kind = "date"

\* The resolver applied once more, to a group it returned
Again(d) == MapResolve(Run("ok"), d, repository, internalRevision, externalDate)

\* C5: a group whose entries are all pinned comes out equal to itself with
\* no lookup, and resolving the result of a resolution changes nothing and
\* looks nothing up.
C5_Idempotent ==
  \A k \in 1..Len(res) :
    res[k].returned =>
      /\ FloatingOf(res[k].input) = <<>> =>
           res[k].output = res[k].input /\ res[k].last = res[k].first
      /\ Again(res[k].output).val = res[k].output
      /\ Again(res[k].output).st.calls = calls
      /\ Again(res[k].output).st.halt = "ok"

\* The resolver returned a fully pinned group with a relative url, and
\* another group in which it pinned an entry
C5_Witness ==
  /\ \E k \in 1..Len(res) :
       /\ res[k].returned
       /\ FloatingOf(res[k].input) = <<>>
       /\ \E e \in Range(res[k].input.data) : StartsWith(e.url, <<"^", "/">>)
  /\ \E k \in 1..Len(res) : res[k].returned /\ FloatingOf(res[k].input) # <<>>

NamesAndUrls(d) == {<<d.data[i].name, d.data[i].url>> : i \in 1..Len(d.data)}

\* C6: when the resolver returns, every entry of its output has a revision
\* and the output has the names and urls of the input.
C6_AllPinnedSameEntries ==
  \A k \in 1..Len(res) :
    res[k].returned =>
      /\ \A o \in Range(res[k].output.data) : o.revision # NoRev
      /\ NamesAndUrls(res[k].output) = NamesAndUrls(res[k].input)
      /\ Len(res[k].output.data) = Len(res[k].input.data)

\* The resolver returned a group of three entries, one of them a floating
\* external of the other repository
C6_Witness ==
  \E k \in 1..Len(res) :
    /\ res[k].returned
    /\ Len(res[k].input.data) >= 3
    /\ \E e \in Range(FloatingOf(res[k].input)) : RepoOf(fullUrl(e)) # RootRepository

\* Does the target of an external declare externals at its revision
DeclaresExternals(e) ==
  /\ ExistsAt(fullUrl(e), RevBound(e.revision))
  /\ props[fullUrl(e)] # <<>>

ComplexInternal(s) == DeclaresExternals(s.e) /\ RepoOf(fullUrl(s.e)) = RootRepository

ComplexForeign(s) == DeclaresExternals(s.e) /\ RepoOf(fullUrl(s.e)) # RootRepository

\* The path of an external below the scratch directory it is declared in
RelativePath(s) == SubSeq(fullPath(s.e), Len(s.dest) + 2, Len(fullPath(s.e)))

\* The names a propset call wrote on a directory
NamesWritten(c) ==
  {ParseLine(l).name : l \in {x \in Range(SplitOn(c.text, "\n")) : x # <<>>}}

\* Is the external an entry of a property written on the directory holding it
WrittenAsProperty(s) ==
  \E c \in Range(calls) :
    c.op = "propset" /\ c.path = s.e.baseDir /\ s.e.name \in NamesWritten(c)

\* C7: while the run goes on, every complex external of the repository of
\* the source has its own triple, whose destination is the destination of
\* the run followed by the path of the external below its scratch directory,
\* and it is in no property written on the directory holding it.
C7_ComplexInternalIsTriple ==
  pc \in Running =>
    \A s \in Range(seen) :
      ComplexInternal(s) =>
        /\ \E t \in Range(planned) \cup Range(nextSteps) :
             /\ t.url = fullUrl(s.e)
             /\ t.destUrl = destination \o <<"/">> \o quote(RelativePath(s))
        /\ ~WrittenAsProperty(s)

\* A complex external of the source repository, declared in a sub-directory
\* under a name with a blank, next to a simple external that was written
C7_Witness ==
  /\ pc = "done"
  /\ \E s \in Range(seen) :
       ComplexInternal(s) /\ Len(RelativePath(s)) > 1 /\ quote(s.e.name) # s.e.name
  /\ \E s \in Range(seen) : ~DeclaresExternals(s.e) /\ WrittenAsProperty(s)

\* C8: once a complex external of another repository is met with imports
\* disabled, the run has stopped on the refusal and no copy was executed.
C8_RefusedImportHalts ==
  (~enableImports /\ \E s \in Range(seen) : ComplexForeign(s)) =>
    pc = "exit0" /\ CopyCalls = {} /\ copied = 0

\* The refusal came while the triple of an external was planned, after the
\* root
C8_Witness ==
  /\ pc = "exit0"
  /\ Len(planned) >= 2
  /\ \E s \in Range(seen) : ComplexForeign(s)

\* C9 (as claimed): with imports enabled a complex external of another
\* repository never stops the run in getRelativePath; while the run goes on
\* it was exported at its revision and added, it has no triple and is in no
\* property.
C9_ImportContinues ==
  \A s \in Range(seen) :
    (enableImports /\ ComplexForeign(s)) =>
      /\ pc \notin {"notdescendant", "exit0"}
      /\ pc \in Running =>
           /\ \E i \in 1..Len(calls) :
                /\ calls[i].op = "export" /\ calls[i].ok
                /\ calls[i].url = fullUrl(s.e)
                /\ calls[i].path = fullPath(s.e)
                /\ calls[i].rev = RevBound(s.e.revision)
                /\ i < Len(calls)
                /\ calls[i + 1].op = "add" /\ calls[i + 1].path = fullPath(s.e)
           /\ \A t \in Range(planned) \cup Range(nextSteps) : t.url # fullUrl(s.e)
           /\ ~WrittenAsProperty(s)

\* C10 (as claimed): the destination is refused exactly when it is in
\* another repository than the source, and then before any checkout, commit
\* lookup or copy.
C10_DestinationRule ==
  /\ pc = "exit1" =>
       /\ RepoOf(Absolute(destination)) # RootRepository
       /\ \A c \in Range(calls) : c.op \notin {"checkout", "log", "copy"}
  /\ (pc \notin {"start", "svnfail"} /\ RepoOf(Absolute(destination)) # RootRepository)
       => pc = "exit1"

\* The entries that were declared with a revision, over all groups that went
\* through the resolver
ExplicitPins == UNION {Range(PinnedOf(res[k].input)) : k \in 1..Len(res)}

\* C11 (as claimed): a complex external of the repository of the source that
\* was declared with a revision has its scratch checkout made at that
\* revision, not at internalRevision.
C11_CheckoutAtPin ==
  \A e \in ExplicitPins :
    ComplexInternal([e |-> e]) =>
      \A c \in Range(calls) :
        (c.op = "checkout" /\ c.url = fullUrl(e)) => c.rev = RevBound(e.revision)

\* The exit status of the process when the run ended as `how`: sys.exit(n)
\* gives n; an exception nobody catches gives 1 (SvnException, and the
\* NameError of svn.py 197, where sys was never imported); the end of the
\* script gives 0
ExitStatus(how) ==
  CASE how = "done" -> 0
    [] how = "exit0" -> 0
    [] how = "exit1" -> 1
    [] how \in {"svnfail", "nocommit", "notdescendant", "badline"} -> 1

\* C12 (as claimed): a run that ended on anything but the completion of its
\* copies ended with a non-zero exit status.
C12_FatalIsNonZero == pc \in Final \ {"done"} => ExitStatus(pc) # 0

\* The calls of one subcommand, as positions of the log
CallsOf(op) == {i \in 1..Len(calls) : calls[i].op = op}

\* A finished run of a root without externals, at a revision number, bound by
\* the commit of the root
PlainRootRun ==
  /\ pc = "done"
  /\ props[Absolute(source)] = <<>>
  /\ useRootRevisionAsMax
  /\ maxRevision.kind = "rev"

\* C13: a finished run of a root without externals at revision N, bound by
\* the root, made one checkout of the source into the first scratch
\* directory, at the revision of the last commit of the source at or before
\* N; its commit lookups are for the repository and the source only; it made
\* one copy, of that scratch directory to the destination.
C13_PlainRootIsOneCopy ==
  PlainRootRun =>
    /\ Cardinality(CallsOf("checkout")) = 1
    /\ \A i \in CallsOf("checkout") :
         /\ calls[i].url = source
         /\ calls[i].path = newTemporaryDir(0).dir
         /\ calls[i].rev = RevBound(SetMax(AtOrBefore(Absolute(source), maxRevision)))
    /\ \A i \in CallsOf("log") : calls[i].url \in {repository, source}
    /\ CallsOf("export") = {}
    /\ Cardinality(CopyCalls) = 1
    /\ \A i \in CopyCalls :
         calls[i].path = newTemporaryDir(0).dir /\ calls[i].url = destination

\* The source did not change in revision N
C13_Witness == PlainRootRun /\ internalRevision < maxRevision.val

\* C13 (as claimed): the one checkout of such a run is at revision N.
C13_CheckoutAtInstant ==
  PlainRootRun => \A i \in CallsOf("checkout") : calls[i].rev = maxRevision

\* The exports made below a scratch directory, in the order of the calls
ImportsInto(dest) ==
  SelectSeq(calls, LAMBDA c : c.op = "export" /\ StartsWith(c.path, dest \o <<"/">>))

\* One line "- Import of <url>@<revision>" for each of the exports q
ImportLines(q) ==
  [i \in 1..Len(q) |-> MsgLine("- Import of", q[i].url, q[i].rev.val, NoBound)]

\* The message of the argument -m, or the default one
CallerMessage ==
  IF messageArg = NoMessage THEN <<MsgLine("Tag of revision", <<>>, NoRev, maxRevision)>>
  ELSE messageArg

\* C14: the message of the i-th pending copy is the message of the caller (or
\* "Tag of revision <instant>"), then for any triple but the root the line
\* "- Tag of external <destUrl>" with its own destination, then one line
\* "- Import of <url>@<revision>" for each import made into its scratch
\* directory, and no line of an import made into another one.
C14_MessageComposition ==
  pc \in Running =>
    \A i \in 1..Len(copies) :
      copies[i].message =
        CallerMessage
          \o (IF i = 1 THEN <<>>
              ELSE <<MsgLine("- Tag of external", copies[i].destUrl, NoRev, NoBound)>>)
          \o ImportLines(ImportsInto(copies[i].dest))

\* A finished run with a message of the caller, in which the root and another
\* triple each had an import
C14_Witness ==
  /\ pc = "done"
  /\ messageArg # NoMessage
  /\ \E i, j \in 1..Len(copies) :
       /\ i # j
       /\ ImportsInto(copies[i].dest) # <<>>
       /\ ImportsInto(copies[j].dest) # <<>>

\* Is the url below the repository of the run (the test of svn.py 213)
InRunRepository(url) == StartsWith(url, repository \o <<"/">>)

\* The instant is a timestamp and the root does not bound the externals
TimestampRun == ~useRootRevisionAsMax /\ maxRevision.kind = "date"

\* C15: in a run at a timestamp that the root does not bound, a floating
\* external of the repository of the source is looked up with the revision
\* number that repository had at the timestamp, which admits the same commits
\* of the external as the timestamp does; a floating external of another
\* repository is looked up with the timestamp itself.
C15_TimestampBounds ==
  TimestampRun =>
    \A k \in 1..Len(res) :
      \A n \in 1..Len(Lookups(res[k])) :
        IF InRunRepository(Lookups(res[k])[n].url)
        THEN /\ Lookups(res[k])[n].rev = RevBound(Peg(repository, maxRevision))
             /\ AtOrBefore(Absolute(Lookups(res[k])[n].url), Lookups(res[k])[n].rev)
                  = AtOrBefore(Absolute(Lookups(res[k])[n].url), maxRevision)
        ELSE Lookups(res[k])[n].rev = maxRevision

\* Externals of both kinds were looked up in a run at a timestamp
C15_Witness ==
  /\ TimestampRun
  /\ \E k \in 1..Len(res) : \E c \in Range(Lookups(res[k])) : InRunRepository(c.url)
  /\ \E k \in 1..Len(res) : \E c \in Range(Lookups(res[k])) : ~InRunRepository(c.url)

\* C15 (as claimed): in such a run every floating external, of the
\* repository of the source too, is looked up by the timestamp and not by a
\* revision number.
C15_AllByTimestamp ==
  TimestampRun =>
    \A k \in 1..Len(res) : \A c \in Range(Lookups(res[k])) : c.rev = maxRevision

\* The revision of the last commit of the source at or before the instant
RootCommit == SetMax(AtOrBefore(Absolute(source), maxRevision))

\* The entry a group returned by the resolver holds for the name of e
PinOf(r, e) == CHOOSE o \in Range(r.output.data) : o.name = e.name

\* C16: when the root bounds the externals, the two bounds are the revision
\* and the date of the last commit of the source at or before the instant,
\* and every floating external that was resolved is pinned no later: to a
\* revision at most that revision in the repository of the source, to a
\* commit dated at most that date in another repository.
C16_NoLaterThanRoot ==
  (useRootRevisionAsMax /\ pc \in Running) =>
    /\ internalRevision = RootCommit
    /\ externalDate = DateOf(repository, RootCommit)
    /\ \A k \in 1..Len(res) :
         res[k].returned =>
           \A e \in Range(FloatingOf(res[k].input)) :
             /\ \E o \in Range(res[k].output.data) : o.name = e.name
             /\ PinOf(res[k], e).revision \in Changed(Absolute(fullUrl(e)))
             /\ IF InRunRepository(fullUrl(e))
                THEN PinOf(res[k], e).revision <= RootCommit
                ELSE DateOf(RepoOf(Absolute(fullUrl(e))), PinOf(res[k], e).revision)
                       <= DateOf(repository, RootCommit)

\* The source did not change in the revision of the instant, an external of
\* its repository did, and an external of another repository was resolved too
C16_Witness ==
  /\ useRootRevisionAsMax /\ pc \in Running
  /\ maxRevision.kind = "rev" /\ RootCommit < maxRevision.val
  /\ \E k \in 1..Len(res) :
       /\ res[k].returned
       /\ \E e \in Range(FloatingOf(res[k].input)) :
            InRunRepository(fullUrl(e)) /\ maxRevision.val \in Changed(Absolute(fullUrl(e)))
  /\ \E k \in 1..Len(res) :
       /\ res[k].returned
       /\ \E e \in Range(FloatingOf(res[k].input)) : ~InRunRepository(fullUrl(e))

\* The applications of the resolver to a group of another repository than the
\* one of the run
ForeignGroups == {k \in 1..Len(res) : res[k].input.repository # repository}

\* C17: for the externals declared inside an external of another repository,
\* the bound is still chosen by membership in the repository of the run, not
\* in the repository of the external that declares them, and the two bounds
\* are those of the run.
C17_RunRepositoryDecides ==
  \A k \in ForeignGroups :
    \A n \in 1..Len(Lookups(res[k])) :
      /\ Lookups(res[k])[n].url = fullUrl(FloatingOf(res[k].input)[n])
      /\ Lookups(res[k])[n].rev =
           IF InRunRepository(Lookups(res[k])[n].url)
           THEN RevBound(internalRevision) ELSE DateBound(externalDate)

\* A nested external in the repository of the external that declares it was
\* looked up and pinned
C17_Witness ==
  \E k \in ForeignGroups :
    /\ res[k].returned
    /\ \E c \in Range(Lookups(res[k])) :
         StartsWith(c.url, res[k].input.repository \o <<"/">>)

\* C17 (as claimed): for the externals declared inside an external, the
\* bound is chosen by membership in the repository of that external.
C17_OwnRepositoryDecides ==
  \A k \in ForeignGroups :
    \A c \in Range(Lookups(res[k])) :
      c.rev = IF StartsWith(c.url, res[k].input.repository \o <<"/">>)
              THEN RevBound(internalRevision) ELSE DateBound(externalDate)

\* The triples that stay on the work list when the next one is taken: all but
\* the one pushed last
Waiting == SubSeq(nextSteps, 1, Len(nextSteps) - 1)

\* C18: a planning step plans the triple pushed last, and leaves the triples
\* that waited below it where they were, under the triples it pushes. So a
\* triple is planned after the one that pushed it, and the triples pushed
\* while a triple is planned, and by those in turn, are planned before any
\* triple that waited when it was taken.
C18_LastPushedFirst ==
  [][(pc = "plan" /\ planned' # planned) =>
       /\ planned' = Append(planned, nextSteps[Len(nextSteps)])
       /\ pc' \in Running =>
            /\ Len(nextSteps') >= Len(Waiting)
            /\ SubSeq(nextSteps', 1, Len(Waiting)) = Waiting]_vars

\* Foo was pushed after Bar by the root and planned first; the external that
\* Foo pushed in turn has been planned too, and the Bar of the root still
\* waits
C18_Witness ==
  /\ pc = "plan"
  /\ Len(planned) = 3
  /\ planned[2].url = Foo
  /\ planned[3].url = Bar
  /\ Len(nextSteps) = 1
  /\ nextSteps[1].url = Bar
  /\ nextSteps[1].destUrl # planned[3].destUrl

\* Does the text of a property hold a line that is not blank and has no space
Malformed(text) ==
  \E l \in Range(SplitOn(text, "\n")) : Strip(l) # <<>> /\ Find(Strip(l), " ") = 0

\* The location whose declarations a propget call read: the url itself, or
\* the url checked out in the scratch directory
ReadBy(c) ==
  IF isUrl(c.path) THEN c.path
  ELSE Absolute(planned[CHOOSE i \in 1..Len(planned) : c.path = newTemporaryDir(i - 1).dir].url)

\* The propget calls that answered with a malformed line, and whose first
\* target had its repository root found, so that its lines were read
JunkReads ==
  {k \in 1..(Len(calls) - 1) :
     /\ calls[k].op = "propget" /\ calls[k].ok
     /\ calls[k + 1].op = "info" /\ calls[k + 1].ok
     /\ \E t \in Range(props[ReadBy(calls[k])]) : Malformed(t.text)}

\* C20: once a declaration line that is not blank and has no space has been
\* read, the run has stopped there: no call follows the reading, no group of
\* the forest that was being read went through the resolver or was written
\* as a property, and no copy is ever executed.
C20_MalformedLineAborts ==
  \A k \in JunkReads :
    /\ pc = "badline"
    /\ k + 1 = Len(calls)
    /\ \A r \in Range(res) : ~StartsWith(r.input.basePath, calls[k].path)
    /\ \A c \in Range(calls) : c.op = "propset" => ~StartsWith(c.path, calls[k].path)
    /\ CopyCalls = {}
    /\ copied = 0

\* The malformed line came after a well-formed one, in the declarations of an
\* external, when the root had already been checked out and resolved
C20_Witness ==
  /\ JunkReads # {}
  /\ \E k \in JunkReads : isUrl(calls[k].path)
  /\ res # <<>>
  /\ \E c \in Range(calls) : c.op = "propset"

\* The directories handed out so far, as pairs of a process and a position
\* in what it got
Handed == {h \in Procs \X (1..MaxDirs) : h[2] <= Len(alloc[h[1]].got)}

\* The directories a process was handed
GotBy(p) == {alloc[p].got[i].dir : i \in 1..Len(alloc[p].got)}

\* C19: no directory is handed out twice, by one process or by two; each
\* directory handed out was absent when the call began and was made by the
\* mkdir of that call; and every name a process has passed is one it made or
\* one it found occupied, the counter having gone on to the next value.
C19_NeverTwice ==
  /\ \A g, h \in Handed :
       g # h => alloc[g[1]].got[g[2]].dir # alloc[h[1]].got[h[2]].dir
  /\ \A h \in Handed :
       /\ alloc[h[1]].got[h[2]].made
       /\ alloc[h[1]].got[h[2]].absent
       /\ alloc[h[1]].got[h[2]].dir \in occupied
  /\ \A p \in Procs :
       \A n \in 0..(alloc[p].curTemp - 1) : newTemporaryDir(n).dir \in occupied

\* Every process was handed all its directories, in a temporaryDir that
\* held a directory at the start, and one process passed a name that another
\* one had made
C19_Witness ==
  /\ \A p \in Procs : Len(alloc[p].got) = MaxDirs
  /\ newTemporaryDir(0).dir \in occupied \ UNION {GotBy(p) : p \in Procs}
  /\ \E p, q \in Procs :
       /\ p # q
       /\ \E n \in 0..(alloc[p].curTemp - 1) : newTemporaryDir(n).dir \in GotBy(q)

\* The checkouts made, as positions of the calls
Checkouts == {k \in 1..Len(calls) : calls[k].op = "checkout" /\ calls[k].ok}

\* The directories of the working copy that hold declarations, each with the
\* text that was checked out
Declared == UNION {Range(Targets(calls[k].path, Absolute(calls[k].url))) : k \in Checkouts}

\* The writes of the property of a directory, as positions of the calls
WritesOn(dir) == {k \in 1..Len(calls) : calls[k].op = "propset" /\ calls[k].path = dir}

\* The property of a directory after the run: the last text written on it,
\* or else the text checked out
PropertyOf(t) ==
  IF WritesOn(t.path) = {} THEN t.text ELSE calls[SetMax(WritesOn(t.path))].text

\* Every declaration of the text has an explicit revision
AllExplicit(text) ==
  \A l \in Range(SplitOn(text, "\n")) :
    Strip(l) # <<>> => ParseLine(Strip(l)).ok /\ ParseLine(Strip(l)).revision # NoRev

\* The run wrote on directories of the working copy only, and made no copy
WorkingCopyOnly ==
  \A k \in 1..Len(calls) :
    /\ calls[k].op # "copy"
    /\ calls[k].op = "propset" => ~isUrl(calls[k].path)

\* C21 (as claimed): after checkoutTimeMachine with recurse = true completes,
\* the resolved declarations have been written onto the directories they
\* were read from, so the property of every directory checked out (of the
\* root and of every external below it, whatever the names of the externals)
\* holds only declarations with an explicit revision; and the run makes no
\* copy and writes nothing to a repository.
C21_ExternalsFrozen ==
  (pc = "done" /\ checkoutRun.recurse) =>
    /\ \A t \in Declared : AllExplicit(PropertyOf(t))
    /\ \A k \in 1..Len(calls) :
         calls[k].op = "propset" => \E t \in Declared : t.path = calls[k].path
    /\ WorkingCopyOnly

\* C22 (as claimed): the pending copies have pairwise distinct destinations,
\* each the destination of the run or below it, also when a complex external
\* of the repository of the source is declared inside another one.
C22_DistinctDestinations ==
  /\ \A i, j \in 1..Len(copies) : i # j => copies[i].destUrl # copies[j].destUrl
  /\ \A i \in 1..Len(copies) :
       \/ copies[i].destUrl = destination
       \/ StartsWith(copies[i].destUrl, destination \o <<"/">>)

\* The ways a run ends before its copies when no call of the client fails:
\* the destination or an import is refused, a declaration is malformed, a
\* location has no commit or does not exist at the bound, a path is outside
\* its root
Aborted == pc \in Final \ {"done"}

\* The complex externals of the repository of the source that were met, as
\* positions of the history
Pushed == {k \in 1..Len(seen) : ComplexInternal(seen[k])}

\* The work list is empty and every triple popped has had its scratch
\* directory copied, once
Completed ==
  /\ pc = "done"
  /\ nextSteps = <<>>
  /\ Len(planned) = 1 + Cardinality(Pushed)
  /\ Len(copies) = Len(planned)
  /\ copied = Len(copies)
  /\ Cardinality(CopyCalls) = Len(planned)
  /\ \A i \in 1..Len(planned) :
       Cardinality({c \in CopyCalls : calls[c].path = newTemporaryDir(i - 1).dir}) = 1

\* C23: when no call of the client fails, a run comes to an end: it is
\* stopped by one of its fatal conditions, or the work list becomes empty,
\* the copy phase is reached, and as many copies are executed as triples were
\* popped (the root and one for each complex external of the repository of
\* the source that was pushed), one for each scratch directory.
C23_EndsOrCompletes == <>(Aborted \/ Completed)

\* A run of four triples came to the end of its copies
C23_Witness == Completed /\ Len(planned) >= 4

\* C23 (as claimed): when no call of the client fails, a run ends only with
\* the work list empty, the copy phase reached and as many copies executed as
\* triples were popped.
C23_AlwaysCompletes == pc \in Final => Completed

====
